---- MODULE Spec2Model ----
(***************************************************************************)
(* Model of next-app: the environment validator (scripts/check-env.js) and *)
(* the environment-aware build configuration (next.config.ts).             *)
(*                                                                         *)
(* A state is one operating-system process.  `prog` says which of the two  *)
(* programs the process runs, `env` is its process.env.  The validator is  *)
(* a straight-line script; each statement (or loop iteration) is a step.   *)
(* The configuration is an object literal evaluated when the module is     *)
(* loaded, plus the async headers() method the build tool calls later.     *)
(***************************************************************************)
EXTENDS Integers, Sequences, FiniteSets, TLC

\* ------------------------------------------------------------------ bounds
\* At most MaxEmpty variables of an environment hold the empty string.
MaxEmpty == 2

\* ------------------------------------------------------- program constants
\* Faulty variant of requiredEnvVars: an optional name is listed as required.
requiredEnvVarsWithLogLevel ==
  << "NODE_ENV", "NEXT_PUBLIC_APP_ENV", "NEXT_PUBLIC_API_URL",
     "DATABASE_URL", "NEXTAUTH_SECRET", "NEXTAUTH_URL", "LOG_LEVEL" >>

requiredEnvVars ==
  << "NODE_ENV", "NEXT_PUBLIC_APP_ENV", "NEXT_PUBLIC_API_URL",
     "DATABASE_URL", "NEXTAUTH_SECRET", "NEXTAUTH_URL" >>

optionalEnvVars ==
  << "NEXT_PUBLIC_STRIPE_PUBLIC_KEY", "STRIPE_SECRET_KEY",
     "AWS_REGION", "LOG_LEVEL" >>

Range(s) == { s[k] : k \in 1..Len(s) }

\* ------------------------------------------------------------ environments
\* Names the two programs read from process.env.
EnvNames == Range(requiredEnvVars) \cup Range(optionalEnvVars)

\* Non-empty values a deployment pipeline may inject for the discriminator.
AppEnvValues == { "production", "staging", "development", "prodution" }

\* The non-empty value the pipeline injects for every other name.
InjectedValue(n) ==
  CASE n = "NODE_ENV"            -> "production"
    [] n = "NEXT_PUBLIC_API_URL" -> "https://api.x.com"
    [] n = "DATABASE_URL"        -> "postgres://db"
    [] n = "NEXTAUTH_SECRET"     -> "s"
    [] n = "NEXTAUTH_URL"        -> "https://x.com"
    [] n = "LOG_LEVEL"           -> "info"
    [] n = "AWS_REGION"          -> "us-east-1"
    [] OTHER                     -> "key"

\* Sets of names that hold the empty string.
EmptySets == { E \in SUBSET EnvNames : Cardinality(E) <= MaxEmpty }

\* process.env: a mapping from the names that are defined to strings.  An
\* absent variable is a name outside the domain.
Envs ==
  { [ n \in S |-> IF n \in E THEN ""
                  ELSE IF n = "NEXT_PUBLIC_APP_ENV" THEN d
                  ELSE InjectedValue(n) ] :
      S \in SUBSET EnvNames, E \in EmptySets, d \in AppEnvValues }

\* Faulty variant of Truthy: tests that the variable is defined, so '' passes.
TruthyDefinedOnly(e, n) == n \in DOMAIN e

\* JavaScript truthiness of process.env[varName]: undefined and '' are falsy,
\* every other string is truthy.
Truthy(e, n) == n \in DOMAIN e /\ e[n] # ""

\* process.env[varName] || dflt
OrElse(e, n, dflt) == IF Truthy(e, n) THEN e[n] ELSE dflt

VARIABLES prog, env, pc, idx, out, hasErrors, exits, nextConfig, routeHeaders

vars == << prog, env, pc, idx, out, hasErrors, exits, nextConfig, routeHeaders >>

\* One console line: the stream, what it reports, the variable name and text.
Line(stream, kind, name, text) ==
  [ stream |-> stream, kind |-> kind, name |-> name, text |-> text ]

Init ==
  /\ prog \in { "check-env", "next.config" }
  /\ env \in Envs
  /\ pc = "start"
  /\ idx = 1
  /\ out = << >>
  /\ hasErrors = FALSE
  /\ exits = << >>
  /\ nextConfig = << >>
  /\ routeHeaders = << >>

\* check-env.js lines 18-23: banner, `let hasErrors = false`, section title.
Start ==
  /\ prog = "check-env" /\ pc = "start"
  /\ out' = out \o << Line("stdout", "banner", "", "Checking environment variables..."),
                      Line("stdout", "title", "", "Required variables:") >>
  /\ hasErrors' = FALSE
  /\ idx' = 1
  /\ pc' = "required"
  /\ UNCHANGED << prog, env, exits, nextConfig, routeHeaders >>

\* The status check-env.js prints for a required name (lines 25-30).
RequiredStatus(e, n) == IF Truthy(e, n) THEN "SET" ELSE "MISSING"

\* The status check-env.js prints for an optional name (lines 35-39).
OptionalStatus(e, n) == IF Truthy(e, n) THEN "SET" ELSE "NOT SET"

\* Faulty variant of CheckRequired: the loop stops at the first missing name.
CheckRequiredShortCircuit ==
  /\ prog = "check-env" /\ pc = "required"
  /\ idx <= Len(requiredEnvVars)
  /\ LET varName == requiredEnvVars[idx]
         status  == RequiredStatus(env, varName)
         last    == idx = Len(requiredEnvVars) \/ status = "MISSING"
     IN  /\ out' = Append(out, Line("stdout", "required", varName, status))
         /\ hasErrors' = IF status = "MISSING" THEN TRUE ELSE hasErrors
         /\ idx' = IF last THEN 1 ELSE idx + 1
         /\ pc' = IF last THEN "optionalTitle" ELSE "required"
  /\ UNCHANGED << prog, env, exits, nextConfig, routeHeaders >>

\* Faulty variant of CheckRequired: the script exits as soon as a name is missing.
CheckRequiredFailFast ==
  /\ prog = "check-env" /\ pc = "required"
  /\ idx <= Len(requiredEnvVars)
  /\ LET varName == requiredEnvVars[idx]
         status  == RequiredStatus(env, varName)
     IN  /\ out' = Append(out, Line("stdout", "required", varName, status))
         /\ hasErrors' = IF status = "MISSING" THEN TRUE ELSE hasErrors
         /\ exits' = IF status = "MISSING" THEN Append(exits, 1) ELSE exits
         /\ idx' = IF idx = Len(requiredEnvVars) THEN 1 ELSE idx + 1
         /\ pc' = IF status = "MISSING" THEN "exited"
                  ELSE IF idx = Len(requiredEnvVars) THEN "optionalTitle"
                  ELSE "required"
  /\ UNCHANGED << prog, env, nextConfig, routeHeaders >>

\* check-env.js lines 24-31: one iteration of requiredEnvVars.forEach.
CheckRequired ==
  /\ prog = "check-env" /\ pc = "required"
  /\ idx <= Len(requiredEnvVars)
  /\ LET varName == requiredEnvVars[idx]
         status  == RequiredStatus(env, varName)
     IN  /\ out' = Append(out, Line("stdout", "required", varName, status))
         /\ hasErrors' = IF status = "MISSING" THEN TRUE ELSE hasErrors
  /\ idx' = IF idx = Len(requiredEnvVars) THEN 1 ELSE idx + 1
  /\ pc' = IF idx = Len(requiredEnvVars) THEN "optionalTitle" ELSE "required"
  /\ UNCHANGED << prog, env, exits, nextConfig, routeHeaders >>

\* check-env.js line 33.
OptionalTitle ==
  /\ prog = "check-env" /\ pc = "optionalTitle"
  /\ out' = Append(out, Line("stdout", "title", "", "Optional variables:"))
  /\ pc' = "optional"
  /\ UNCHANGED << prog, env, idx, hasErrors, exits, nextConfig, routeHeaders >>

\* Faulty variant of CheckOptional: an unset optional name prints nothing.
CheckOptionalSkipUnset ==
  /\ prog = "check-env" /\ pc = "optional"
  /\ idx <= Len(optionalEnvVars)
  /\ LET varName == optionalEnvVars[idx]
     IN  out' = IF Truthy(env, varName)
                  THEN Append(out, Line("stdout", "optional", varName, "SET"))
                  ELSE out
  /\ idx' = IF idx = Len(optionalEnvVars) THEN 1 ELSE idx + 1
  /\ pc' = IF idx = Len(optionalEnvVars) THEN "summary" ELSE "optional"
  /\ UNCHANGED << prog, env, hasErrors, exits, nextConfig, routeHeaders >>

\* Faulty variant of CheckOptional: an unset optional name sets the failure flag.
CheckOptionalAsRequired ==
  /\ prog = "check-env" /\ pc = "optional"
  /\ idx <= Len(optionalEnvVars)
  /\ LET varName == optionalEnvVars[idx]
     IN  /\ out' = Append(out, Line("stdout", "optional", varName,
                                    OptionalStatus(env, varName)))
         /\ hasErrors' = IF Truthy(env, varName) THEN hasErrors ELSE TRUE
  /\ idx' = IF idx = Len(optionalEnvVars) THEN 1 ELSE idx + 1
  /\ pc' = IF idx = Len(optionalEnvVars) THEN "summary" ELSE "optional"
  /\ UNCHANGED << prog, env, exits, nextConfig, routeHeaders >>

\* check-env.js lines 34-40: one iteration of optionalEnvVars.forEach.
CheckOptional ==
  /\ prog = "check-env" /\ pc = "optional"
  /\ idx <= Len(optionalEnvVars)
  /\ LET varName == optionalEnvVars[idx]
     IN  out' = Append(out, Line("stdout", "optional", varName,
                                 OptionalStatus(env, varName)))
  /\ idx' = IF idx = Len(optionalEnvVars) THEN 1 ELSE idx + 1
  /\ pc' = IF idx = Len(optionalEnvVars) THEN "summary" ELSE "optional"
  /\ UNCHANGED << prog, env, hasErrors, exits, nextConfig, routeHeaders >>

\* check-env.js lines 42-44: separator and the two summary lines.
SummaryLines(e) ==
  << Line("stdout", "separator", "", "---"),
     Line("stdout", "summary", "Environment",
          OrElse(e, "NEXT_PUBLIC_APP_ENV", "NOT SET")),
     Line("stdout", "summary", "Node Environment",
          OrElse(e, "NODE_ENV", "NOT SET")) >>

Summary ==
  /\ prog = "check-env" /\ pc = "summary"
  /\ out' = out \o SummaryLines(env)
  /\ pc' = "verdict"
  /\ UNCHANGED << prog, env, idx, hasErrors, exits, nextConfig, routeHeaders >>

\* check-env.js lines 46-52: the exit code handed to process.exit.
ExitCode(errors) == IF errors THEN 1 ELSE 0

\* check-env.js lines 46-52: the verdict line, then process.exit.
Exit ==
  /\ prog = "check-env" /\ pc = "verdict"
  /\ out' = Append(out,
        IF hasErrors
          THEN Line("stderr", "verdict", "",
                    "Some required environment variables are missing!")
          ELSE Line("stdout", "verdict", "",
                    "All required environment variables are set!"))
  /\ exits' = Append(exits, ExitCode(hasErrors))
  /\ pc' = "exited"
  /\ UNCHANGED << prog, env, idx, hasErrors, nextConfig, routeHeaders >>

\* ------------------------------------------------------------ next.config
\* JavaScript's undefined, as the value of a property.
Undefined == "undefined"

\* process.env.NEXT_PUBLIC_APP_ENV === 'production'
IsProduction(e) ==
  "NEXT_PUBLIC_APP_ENV" \in DOMAIN e /\ e["NEXT_PUBLIC_APP_ENV"] = "production"

\* Faulty variant of Output: standalone for every discriminator but 'development'.
OutputUnlessDevelopment(e) ==
  IF "NEXT_PUBLIC_APP_ENV" \in DOMAIN e /\ e["NEXT_PUBLIC_APP_ENV"] # "development"
    THEN "standalone" ELSE Undefined

\* Source line 68: nextConfig.output.
Output(e) == IF IsProduction(e) THEN "standalone" ELSE Undefined

\* Faulty variant of ImageDomains: staging is given a domain of its own.
ImageDomainsPerEnvironment(e) ==
  IF IsProduction(e) THEN << "yourapp.com", "cdn.yourapp.com" >>
  ELSE IF "NEXT_PUBLIC_APP_ENV" \in DOMAIN e /\ e["NEXT_PUBLIC_APP_ENV"] = "staging"
    THEN << "staging.yourapp.com" >>
  ELSE << "localhost" >>

\* Faulty variant of ImageDomains: the CDN domain is left out in production.
ImageDomainsNoCdn(e) ==
  IF IsProduction(e) THEN << "yourapp.com" >> ELSE << "localhost" >>

\* Source lines 71-75: nextConfig.images.domains.
ImageDomains(e) ==
  IF IsProduction(e) THEN << "yourapp.com", "cdn.yourapp.com" >>
                     ELSE << "localhost" >>

\* Source lines 56-75: the object literal, without its headers method.
NextConfig(e) ==
  [ env             |-> [ APP_ENV |-> OrElse(e, "NEXT_PUBLIC_APP_ENV", "development") ],
    reactStrictMode |-> TRUE,
    output          |-> Output(e),
    images          |-> [ domains |-> ImageDomains(e) ] ]

Header(k, v) == [ key |-> k, value |-> v ]

\* Faulty variant of Headers: Strict-Transport-Security and X-DNS-Prefetch-Control
\* are returned in the opposite order.
HeadersReordered(e) ==
  IF IsProduction(e)
    THEN << [ source  |-> "/:path*",
              headers |-> << Header("Strict-Transport-Security",
                                    "max-age=63072000; includeSubDomains; preload"),
                             Header("X-DNS-Prefetch-Control", "on"),
                             Header("X-Content-Type-Options", "nosniff"),
                             Header("X-Frame-Options", "DENY") >> ] >>
    ELSE << >>

\* Source lines 78-105: what nextConfig.headers() resolves to.
Headers(e) ==
  IF IsProduction(e)
    THEN << [ source  |-> "/:path*",
              headers |-> << Header("X-DNS-Prefetch-Control", "on"),
                             Header("Strict-Transport-Security",
                                    "max-age=63072000; includeSubDomains; preload"),
                             Header("X-Content-Type-Options", "nosniff"),
                             Header("X-Frame-Options", "DENY") >> ] >>
    ELSE << >>

\* The module is loaded: the object literal of lines 56-106 is evaluated.
LoadConfig ==
  /\ prog = "next.config" /\ pc = "start"
  /\ nextConfig' = << NextConfig(env) >>
  /\ pc' = "loaded"
  /\ UNCHANGED << prog, env, idx, out, hasErrors, exits, routeHeaders >>

\* The build tool calls nextConfig.headers() and awaits the result.
CallHeaders ==
  /\ prog = "next.config" /\ pc = "loaded"
  /\ routeHeaders' = << Headers(env) >>
  /\ pc' = "resolved"
  /\ UNCHANGED << prog, env, idx, out, hasErrors, exits, nextConfig >>

Next ==
  \/ Start
  \/ CheckRequired
  \/ OptionalTitle
  \/ CheckOptional
  \/ Summary
  \/ Exit
  \/ LoadConfig
  \/ CallHeaders

Spec == Init /\ [][Next]_vars

\* A script and a module load are run to completion by the JavaScript engine:
\* nothing suspends them between statements.
FairSpec == Spec /\ WF_vars(Next)

\* ------------------------------------------------ the spec's view of the output
\* outputMode of the resolved configuration: the build tool's standard
\* output unless nextConfig.output selects standalone.
outputMode(cfg) == IF cfg.output = "standalone" THEN "standalone" ELSE "standard"

\* imageDomains of the resolved configuration, as a set.
imageDomains(cfg) == Range(cfg.images.domains)

RECURSIVE Flatten(_)
Flatten(rules) ==
  IF rules = << >> THEN << >>
  ELSE [ k \in 1..Len(Head(rules).headers) |->
           << Head(rules).headers[k].key, Head(rules).headers[k].value >> ]
       \o Flatten(Tail(rules))

\* securityHeaders of the resolved configuration: the (name, value) pairs of
\* every route rule headers() returned, in order.
securityHeaders(rules) == Flatten(rules)

\* The entries of the validator's report: the status lines, in output order.
Report == SelectSeq(out, LAMBDA l : l.kind \in { "required", "optional" })

\* ------------------------------------------------------------------ claims
Done == prog = "check-env" /\ pc = "exited"

AppEnvDefined == "NEXT_PUBLIC_APP_ENV" \in DOMAIN env

AppEnvIsProduction == AppEnvDefined /\ env["NEXT_PUBLIC_APP_ENV"] = "production"

SixRequired ==
  { "NODE_ENV", "NEXT_PUBLIC_APP_ENV", "NEXT_PUBLIC_API_URL",
    "DATABASE_URL", "NEXTAUTH_SECRET", "NEXTAUTH_URL" }

FourOptional ==
  { "NEXT_PUBLIC_STRIPE_PUBLIC_KEY", "STRIPE_SECRET_KEY", "AWS_REGION", "LOG_LEVEL" }

NonEmptyIn(e, n) == n \in DOMAIN e /\ e[n] # ""

\* C1: the validator exits with code 0 (hasErrors false) if and only if each
\* of the six required names maps to a non-empty string; otherwise it exits
\* with code 1.  A required name mapped to "" counts as missing.
C1_ExitZeroIffAllRequiredSet ==
  Done =>
    /\ Len(exits) = 1
    /\ exits[1] \in { 0, 1 }
    /\ (exits[1] = 0) <=> (\A n \in SixRequired : NonEmptyIn(env, n))
    /\ (exits[1] = 0) <=> ~hasErrors

\* C1 witness: a run ended with code 1 although all six names are defined,
\* because one of them is the empty string.
C1_Witness ==
  /\ Done
  /\ SixRequired \subseteq DOMAIN env
  /\ env["NEXTAUTH_SECRET"] = ""
  /\ exits = << 1 >>

\* C2: every required name is examined, and each one that is absent or empty
\* produces exactly one MISSING entry in the same run; with k such names the
\* report holds exactly k MISSING entries and the failure flag is set.
C2_MissingAggregated ==
  Done =>
    LET missing == { n \in SixRequired : ~NonEmptyIn(env, n) }
        entries == { k \in 1..Len(out) : out[k].text = "MISSING" }
    IN  /\ Cardinality(entries) = Cardinality(missing)
        /\ \A n \in missing :
             Cardinality({ k \in entries : out[k].name = n }) = 1
        /\ \A n \in SixRequired :
             \E k \in 1..Len(out) : out[k].kind = "required" /\ out[k].name = n
        /\ (missing # {}) => hasErrors

\* C2 witness: the empty environment ended with six MISSING entries.
C2_Witness ==
  /\ Done
  /\ DOMAIN env = {}
  /\ Cardinality({ k \in 1..Len(out) : out[k].text = "MISSING" }) = 6
  /\ hasErrors

\* C3: the finished report has exactly one status entry for each of the 6
\* required and 4 optional names, in declared order, whatever is set.
C3_ReportOrder ==
  (prog = "check-env" /\ pc \in { "summary", "verdict", "exited" }) =>
    [ k \in 1..Len(Report) |-> Report[k].name ] =
      << "NODE_ENV", "NEXT_PUBLIC_APP_ENV", "NEXT_PUBLIC_API_URL",
         "DATABASE_URL", "NEXTAUTH_SECRET", "NEXTAUTH_URL",
         "NEXT_PUBLIC_STRIPE_PUBLIC_KEY", "STRIPE_SECRET_KEY",
         "AWS_REGION", "LOG_LEVEL" >>

\* C3 witness: a finished report of ten entries in which some required and
\* some optional variables are set and others are not.
C3_Witness ==
  /\ Done
  /\ Len(Report) = 10
  /\ Report[1].text = "SET" /\ Report[4].text = "MISSING"
  /\ Report[8].text = "SET" /\ Report[10].text = "NOT SET"

\* The part of an environment two runs must agree on: its restriction to
\* the six required names.
RequiredPart(e) == [ n \in DOMAIN e \cap SixRequired |-> e[n] ]

\* The exit code a required part calls for.
VerdictOf(r) == IF \A n \in SixRequired : NonEmptyIn(r, n) THEN 0 ELSE 1

\* C4: optional variables never affect the outcome.  The exit code and the
\* failure flag of a finished run are a function of the environment's
\* restriction to the six required names, so two environments that agree on
\* those names and differ only in the four optional ones end alike; once the
\* required loop is over the failure flag never changes; and an optional name
\* that is absent or empty is reported as NOT SET.
C4_OptionalNeverAffects ==
  /\ [](Done => /\ exits = << VerdictOf(RequiredPart(env)) >>
                /\ hasErrors = (VerdictOf(RequiredPart(env)) = 1))
  /\ [][ (prog = "check-env" /\ pc \in { "optionalTitle", "optional", "summary", "verdict" }) =>
           /\ hasErrors' = hasErrors
           /\ (pc' = "exited") => (exits' = << IF hasErrors THEN 1 ELSE 0 >>)
           /\ (pc = "optional" /\ ~NonEmptyIn(env, optionalEnvVars[idx])) =>
                /\ out'[Len(out')].name = optionalEnvVars[idx]
                /\ out'[Len(out')].text = "NOT SET" ]_vars

\* C4 witness: all six required names are set, no optional name is, and the
\* run ended with code 0 after four NOT SET lines.
C4_Witness ==
  /\ Done
  /\ \A n \in SixRequired : NonEmptyIn(env, n)
  /\ \A n \in FourOptional : n \notin DOMAIN env
  /\ Cardinality({ k \in 1..Len(out) : out[k].text = "NOT SET" }) = 4
  /\ exits = << 0 >>

\* C5: outputMode is standalone when NEXT_PUBLIC_APP_ENV is exactly
\* "production" and standard for every other value, absent and "" included.
C5_OutputMode ==
  (prog = "next.config" /\ pc \in { "loaded", "resolved" }) =>
    outputMode(nextConfig[1]) =
      IF AppEnvIsProduction THEN "standalone" ELSE "standard"

\* C5 witness: the configuration was loaded with an empty discriminator and
\* resolved to the standard output mode.
C5_Witness ==
  /\ prog = "next.config" /\ pc = "loaded"
  /\ AppEnvDefined /\ env["NEXT_PUBLIC_APP_ENV"] = ""
  /\ outputMode(nextConfig[1]) = "standard"

\* C6: in production securityHeaders is exactly the four pairs of the
\* interface table, in that order; for every other discriminator it is empty.
C6_SecurityHeaders ==
  (prog = "next.config" /\ pc = "resolved") =>
    securityHeaders(routeHeaders[1]) =
      IF AppEnvIsProduction
        THEN << << "X-DNS-Prefetch-Control", "on" >>,
                << "Strict-Transport-Security",
                   "max-age=63072000; includeSubDomains; preload" >>,
                << "X-Content-Type-Options", "nosniff" >>,
                << "X-Frame-Options", "DENY" >> >>
        ELSE << >>

\* C6 witness: headers() was called in production and returned four pairs.
C6_Witness ==
  /\ prog = "next.config" /\ pc = "resolved"
  /\ AppEnvIsProduction
  /\ Len(securityHeaders(routeHeaders[1])) = 4

\* C7: imageDomains is {yourapp.com, cdn.yourapp.com} in production and
\* {localhost} for every other discriminator, absent included.
C7_ImageDomains ==
  (prog = "next.config" /\ pc \in { "loaded", "resolved" }) =>
    imageDomains(nextConfig[1]) =
      IF AppEnvIsProduction THEN { "yourapp.com", "cdn.yourapp.com" }
                            ELSE { "localhost" }

\* C7 witness: the configuration was loaded for staging with localhost as
\* its only image domain.
C7_Witness ==
  /\ prog = "next.config" /\ pc = "loaded"
  /\ AppEnvDefined /\ env["NEXT_PUBLIC_APP_ENV"] = "staging"
  /\ imageDomains(nextConfig[1]) = { "localhost" }

\* The environment with NEXT_PUBLIC_APP_ENV removed.
WithoutAppEnv(e) == [ n \in DOMAIN e \ { "NEXT_PUBLIC_APP_ENV" } |-> e[n] ]

\* C8: for every discriminator other than "production" (typos, "staging",
\* "development" and "" included) the resolved configuration, that is
\* outputMode, imageDomains and securityHeaders, equals the one resolved when
\* NEXT_PUBLIC_APP_ENV is absent.
C8_SameAsAbsent ==
  (prog = "next.config" /\ pc = "resolved" /\ ~AppEnvIsProduction) =>
    /\ outputMode(nextConfig[1]) = outputMode(NextConfig(WithoutAppEnv(env)))
    /\ imageDomains(nextConfig[1]) = imageDomains(NextConfig(WithoutAppEnv(env)))
    /\ securityHeaders(routeHeaders[1]) = securityHeaders(Headers(WithoutAppEnv(env)))

\* C8 witness: the configuration was resolved for the misspelt discriminator
\* "prodution": standard output, localhost, no headers.
C8_Witness ==
  /\ prog = "next.config" /\ pc = "resolved"
  /\ AppEnvDefined /\ env["NEXT_PUBLIC_APP_ENV"] = "prodution"
  /\ outputMode(nextConfig[1]) = "standard"
  /\ imageDomains(nextConfig[1]) = { "localhost" }
  /\ securityHeaders(routeHeaders[1]) = << >>

\* C9: security headers are graded: staging's header list holds a header
\* that development's does not, and production's one that staging's does not.
C9_GradedHeaders ==
  (prog = "next.config" /\ pc = "resolved" /\ AppEnvDefined) =>
    LET mine    == Range(securityHeaders(routeHeaders[1]))
        dev     == Range(securityHeaders(Headers([ env EXCEPT !["NEXT_PUBLIC_APP_ENV"] = "development" ])))
        staging == Range(securityHeaders(Headers([ env EXCEPT !["NEXT_PUBLIC_APP_ENV"] = "staging" ])))
    IN  /\ (env["NEXT_PUBLIC_APP_ENV"] = "staging") =>
             (dev \subseteq mine /\ mine # dev)
        /\ (env["NEXT_PUBLIC_APP_ENV"] = "production") =>
             (staging \subseteq mine /\ mine # staging)

\* The kinds of line of a complete run, in order.
CompleteKinds ==
  << "banner", "title",
     "required", "required", "required", "required", "required", "required",
     "title", "optional", "optional", "optional", "optional",
     "separator", "summary", "summary", "verdict" >>

\* C10: every run of the validator terminates with exactly one process exit,
\* code 0 or 1, and no exit happens before the six required lines, the four
\* optional lines and the two summary lines (the value, or NOT SET when it is
\* absent or empty) have been emitted in that order.
C10_RunsToCompletion ==
  /\ (prog = "check-env") ~> (pc = "exited" /\ Len(exits) = 1)
  /\ [](Len(exits) <= 1)
  /\ []((exits # << >>) =>
          /\ exits[1] \in { 0, 1 }
          /\ [ k \in 1..Len(out) |-> out[k].kind ] = CompleteKinds
          /\ out[15].name = "Environment"
          /\ out[15].text = IF NonEmptyIn(env, "NEXT_PUBLIC_APP_ENV")
                              THEN env["NEXT_PUBLIC_APP_ENV"] ELSE "NOT SET"
          /\ out[16].name = "Node Environment"
          /\ out[16].text = IF NonEmptyIn(env, "NODE_ENV")
                              THEN env["NODE_ENV"] ELSE "NOT SET")

\* C10 witness: the first required name is missing and the run still emitted
\* the whole report before its single exit with code 1.
C10_Witness ==
  /\ Done
  /\ "NODE_ENV" \notin DOMAIN env
  /\ Len(out) = 17
  /\ out[3].text = "MISSING"
  /\ out[16].text = "NOT SET"
  /\ exits = << 1 >>
====
